---- MODULE Spec2Model ----
(***************************************************************************)
(* A model of the CHIP-8 emulator: the instruction decoder                 *)
(* (instruction.rs), the memory subsystem (memory.rs), the execution       *)
(* engine (cpu.rs) and the run loop that drives them (system.rs).          *)
(*                                                                         *)
(* Rust outcomes.  A handler returns Ok or Err(String); besides that it    *)
(* can panic (array index out of range, unwrap of an Err, and integer      *)
(* overflow when the build has overflow checks on).  The build profile is  *)
(* the variable overflow_checks: TRUE is the debug profile, in which an    *)
(* overflowing +, - or * panics; FALSE is the release profile, in which it *)
(* wraps to the width of the type.  A handler's outcome is the record      *)
(*   [res, cpu, mem, flags]    res \in {"Ok", "panic", <an Err class>}     *)
(* The Err strings of the source are modelled by the class of the site     *)
(* that returns them: "OutOfBounds" for the Invalid ... memory location    *)
(* messages of memory.rs, "UnknownOpcode" for the Unrecognized ... opcode  *)
(* messages of cpu.rs, "RomLoadFailure" for system.rs's failed open.       *)
(*                                                                         *)
(* Arrays.  ram ([u8; 0x1000]) and vram ([u8; 64 * 32]) start zeroed and   *)
(* are held as the function of their non-zero elements: Get reads an       *)
(* element, Set and SetAll write.  The index checks of the source are made *)
(* against RamSize and VramSize, not against the function's domain.        *)
(***************************************************************************)
EXTENDS Integers, Sequences, FiniteSets, TLC

VARIABLES
    cpu,              \* CPU: [dt, st, i, pc, sp, reg]
    mem,              \* Memory: [ram, vram, stack, sp]
    flags,            \* Flags: [draw, clear, sound, key]
    display,          \* Display: [canvas, last]
    data,             \* run(): the fetched word (let data)
    mem_addr,         \* run(): the address fetched from (let mem_addr)
    instr,            \* run(): the decoded instruction (let instr)
    at,               \* position in main()/run()
    result,           \* "running", or how main() ended
    overflow_checks   \* build profile: TRUE = debug, FALSE = release

vars == <<cpu, mem, flags, display, data, mem_addr, instr, at, result, overflow_checks>>

----------------------------------------------------------------------------
(* Sizes fixed by the source.                                              *)

RamSize == 4096
VramSize == 2048
StackSize == 16
NumRegs == 16
RomLocation == 512
TimerInit == 60

----------------------------------------------------------------------------
(* Machine integers.                                                       *)

RECURSIVE BitAnd(_, _)
BitAnd(a, b) ==
    IF a = 0 \/ b = 0 THEN 0
    ELSE (a % 2) * (b % 2) + 2 * BitAnd(a \div 2, b \div 2)

RECURSIVE BitOr(_, _)
BitOr(a, b) ==
    IF a = 0 THEN b
    ELSE IF b = 0 THEN a
    ELSE (IF a % 2 = 1 \/ b % 2 = 1 THEN 1 ELSE 0) + 2 * BitOr(a \div 2, b \div 2)

RECURSIVE BitXor(_, _)
BitXor(a, b) ==
    IF a = 0 THEN b
    ELSE IF b = 0 THEN a
    ELSE ((a + b) % 2) + 2 * BitXor(a \div 2, b \div 2)

RECURSIVE Pow2(_)
Pow2(k) == IF k = 0 THEN 1 ELSE 2 * Pow2(k - 1)

\* the moduli of u8 and u16
U8 == Pow2(8)
U16 == Pow2(16)

Shr(a, k) == a \div Pow2(k)

\* << on an unsigned type of modulus w: bits shifted out are dropped, no panic
Shl(a, k, w) == (a * Pow2(k)) % w

\* a + b, a - b, a * b on an unsigned type of modulus w: [panic, val]
CheckedAdd(a, b, w, oc) ==
    IF a + b >= w THEN [panic |-> oc, val |-> (a + b) % w]
    ELSE [panic |-> FALSE, val |-> a + b]

CheckedSub(a, b, w, oc) ==
    IF a < b THEN [panic |-> oc, val |-> (a - b + w) % w]
    ELSE [panic |-> FALSE, val |-> a - b]

CheckedMul(a, b, w, oc) ==
    IF a * b >= w THEN [panic |-> oc, val |-> (a * b) % w]
    ELSE [panic |-> FALSE, val |-> a * b]

\* u8::wrapping_sub
WrappingSub8(a, b) == (a - b + U8) % U8

----------------------------------------------------------------------------
(* Zero-initialised arrays.                                                *)

Zeroed == [a \in {} |-> 0]

Get(arr, a) == IF a \in DOMAIN arr THEN arr[a] ELSE 0

Set(arr, a, v) ==
    IF v = 0 THEN [b \in DOMAIN arr \ {a} |-> arr[b]]
    ELSE [b \in DOMAIN arr \cup {a} |-> IF b = a THEN v ELSE arr[b]]

\* arr[base + k] = seq[k] for every k, seq counted from 0 as in the source
SetAll(arr, base, seq) ==
    LET span == base..(base + Len(seq) - 1)
        kept == (DOMAIN arr \ span) \cup {a \in span : seq[a - base + 1] # 0}
    IN  [a \in kept |-> IF a \in span THEN seq[a - base + 1] ELSE arr[a]]

----------------------------------------------------------------------------
(* instruction.rs                                                          *)

\* decode with y taken from the low nibble of the high byte
decode_WrongY(w) ==
    [ itype |-> Shr(BitAnd(w, 61440), 12),
      n     |-> BitAnd(w, 15),
      x     |-> Shr(BitAnd(w, 3840), 8),
      y     |-> Shr(BitAnd(w, 3840), 8),
      kk    |-> BitAnd(w, 255),
      nnn   |-> BitAnd(w, 4095) ]

decode(w) ==
    [ itype |-> Shr(BitAnd(w, 61440), 12),
      n     |-> BitAnd(w, 15),
      x     |-> Shr(BitAnd(w, 3840), 8),
      y     |-> Shr(BitAnd(w, 240), 4),
      kk    |-> BitAnd(w, 255),
      nnn   |-> BitAnd(w, 4095) ]

NoInstr == decode(0)

----------------------------------------------------------------------------
(* memory.rs                                                               *)

fonts ==
    << 240, 144, 144, 144, 240,
        32,  96,  32,  32, 112,
       240,  16, 240, 128, 240,
       240,  16, 240,  16, 240,
       144, 144, 240,  16,  16,
       240, 128, 240,  16, 240,
       240, 128, 240, 144, 240,
       240,  16,  32,  64,  64,
       240, 144, 240, 144, 240,
       240, 144, 240,  16, 240,
       240, 144, 240, 144, 144,
       224, 144, 224, 144, 224,
       240, 128, 128, 128, 240,
       224, 144, 144, 144, 224,
       240, 128, 240, 128, 240,
       240, 128, 240, 128, 128 >>

write_font_data(m) == [m EXCEPT !.ram = SetAll(m.ram, 0, fonts)]

allocate ==
    write_font_data(
        [ ram   |-> Zeroed,
          vram  |-> Zeroed,
          stack |-> [s \in 0..(StackSize - 1) |-> 0],
          sp    |-> 0 ])

\* ram[rom_location + offset] = data[offset]: an index past the end panics
write_rom_data(m, bytes) ==
    IF RomLocation + Len(bytes) > RamSize
    THEN [res |-> "panic", mem |-> m]
    ELSE [res |-> "Ok", mem |-> [m EXCEPT !.ram = SetAll(m.ram, RomLocation, bytes)]]

write_byte(m, location, val) ==
    IF location >= 4096
    THEN [res |-> "OutOfBounds", mem |-> m]
    ELSE [res |-> "Ok", mem |-> [m EXCEPT !.ram = Set(m.ram, location, val)]]

clear_vram(m) == [m EXCEPT !.vram = Zeroed]

read_word(m, loc) ==
    IF loc > 4095 THEN [res |-> "OutOfBounds", val |-> 0]
    ELSE IF loc + 1 >= RamSize THEN [res |-> "panic", val |-> 0]
    ELSE [res |-> "Ok", val |-> BitOr(Shl(Get(m.ram, loc), 8, U16), Get(m.ram, loc + 1))]

read_byte(m, loc) ==
    IF loc > 4095 THEN [res |-> "OutOfBounds", val |-> 0]
    ELSE [res |-> "Ok", val |-> Get(m.ram, loc)]

get_vram(m) == m.vram

\* pop_stack reading the element before it moves sp down
pop_stack_ReadFirst(m) ==
    IF m.sp = 0 \/ m.sp >= StackSize
    THEN [res |-> "panic", val |-> 0, mem |-> m]
    ELSE [res |-> "Ok", val |-> m.stack[m.sp], mem |-> [m EXCEPT !.sp = m.sp - 1]]

\* self.sp -= 1 (usize): at 0 it panics under overflow checks and otherwise
\* wraps to usize::MAX, where self.stack[self.sp] panics
pop_stack(m) ==
    IF m.sp = 0 \/ m.sp - 1 >= StackSize
    THEN [res |-> "panic", val |-> 0, mem |-> m]
    ELSE [res |-> "Ok", val |-> m.stack[m.sp - 1], mem |-> [m EXCEPT !.sp = m.sp - 1]]

\* self.stack[self.sp] = val panics when sp is past the array
push_stack(m, val) ==
    IF m.sp >= StackSize THEN [res |-> "panic", mem |-> m]
    ELSE [res |-> "Ok", mem |-> [m EXCEPT !.stack[m.sp] = val, !.sp = m.sp + 1]]

----------------------------------------------------------------------------
(* display.rs: the keys                                                    *)

\* enum Key, in declaration order
Key == << "ZERO", "ONE", "TWO", "THREE", "FOUR", "FIVE", "SIX", "SEVEN", "EIGHT",
          "NINE", "A", "B", "C", "D", "E", "F", "NONE", "QUIT" >>

as_u8(k) == (CHOOSE j \in 1..Len(Key) : Key[j] = k) - 1

----------------------------------------------------------------------------
(* cpu.rs                                                                  *)

init ==
    [ dt  |-> TimerInit,
      st  |-> TimerInit,
      i   |-> 0,
      pc  |-> RomLocation,
      sp  |-> 0,
      reg |-> [r \in 0..(NumRegs - 1) |-> 0] ]

\* an opcode handler's outcome
Out(res, c, m, f) == [res |-> res, cpu |-> c, mem |-> m, flags |-> f]

\* let loc = self.pc; self.pc += 0x02; loc
register_pc(c, oc) ==
    LET a == CheckedAdd(c.pc, 2, U16, oc)
    IN  [panic |-> a.panic, loc |-> c.pc, cpu |-> [c EXCEPT !.pc = a.val]]

\* self.pc += 2 of the skip opcodes
Skip(c, m, f, oc) ==
    LET a == CheckedAdd(c.pc, 2, U16, oc)
    IN  IF a.panic THEN Out("panic", c, m, f)
        ELSE Out("Ok", [c EXCEPT !.pc = a.val], m, f)

\* 00EE without self.sp -= 1
opcode_0_NoSpDec(c, ins, f, m, oc) ==
    CASE ins.kk = 224 -> Out("Ok", c, m, [f EXCEPT !.clear = TRUE])
      [] ins.kk = 238 ->
            LET p == pop_stack(m)
            IN  IF p.res # "Ok" THEN Out("panic", c, m, f)
                ELSE Out("Ok", [c EXCEPT !.pc = p.val], p.mem, f)
      [] OTHER -> Out("UnknownOpcode", c, m, f)

opcode_0(c, ins, f, m, oc) ==
    CASE ins.kk = 224 -> Out("Ok", c, m, [f EXCEPT !.clear = TRUE])
      [] ins.kk = 238 ->
            LET p == pop_stack(m)
                s == CheckedSub(c.sp, 1, U8, oc)
            IN  IF p.res # "Ok" THEN Out("panic", c, m, f)
                ELSE IF s.panic THEN Out("panic", [c EXCEPT !.pc = p.val], p.mem, f)
                ELSE Out("Ok", [c EXCEPT !.pc = p.val, !.sp = s.val], p.mem, f)
      [] OTHER -> Out("UnknownOpcode", c, m, f)

opcode_1(c, ins, f, m, oc) == Out("Ok", [c EXCEPT !.pc = ins.nnn], m, f)

\* 2nnn with pc set to nnn before it is pushed
opcode_2_PushTarget(c, ins, f, m, oc) ==
    LET p == push_stack(m, ins.nnn)
        s == CheckedAdd(c.sp, 1, U8, oc)
    IN  IF p.res # "Ok" THEN Out("panic", c, m, f)
        ELSE IF s.panic THEN Out("panic", c, p.mem, f)
        ELSE Out("Ok", [c EXCEPT !.sp = s.val, !.pc = ins.nnn], p.mem, f)

opcode_2(c, ins, f, m, oc) ==
    LET p == push_stack(m, c.pc)
        s == CheckedAdd(c.sp, 1, U8, oc)
    IN  IF p.res # "Ok" THEN Out("panic", c, m, f)
        ELSE IF s.panic THEN Out("panic", c, p.mem, f)
        ELSE Out("Ok", [c EXCEPT !.sp = s.val, !.pc = ins.nnn], p.mem, f)

\* 3xkk skipping by 4
opcode_3_Skip4(c, ins, f, m, oc) ==
    IF c.reg[ins.x] = ins.kk THEN Out("Ok", [c EXCEPT !.pc = c.pc + 4], m, f)
    ELSE Out("Ok", c, m, f)

opcode_3(c, ins, f, m, oc) ==
    IF c.reg[ins.x] = ins.kk THEN Skip(c, m, f, oc) ELSE Out("Ok", c, m, f)

opcode_4(c, ins, f, m, oc) ==
    IF c.reg[ins.x] # ins.kk THEN Skip(c, m, f, oc) ELSE Out("Ok", c, m, f)

opcode_5(c, ins, f, m, oc) ==
    IF c.reg[ins.x] = c.reg[ins.y] THEN Skip(c, m, f, oc) ELSE Out("Ok", c, m, f)

opcode_6(c, ins, f, m, oc) == Out("Ok", [c EXCEPT !.reg[ins.x] = ins.kk], m, f)

\* 7xkk storing kk instead of adding it
opcode_7_Assign(c, ins, f, m, oc) == Out("Ok", [c EXCEPT !.reg[ins.x] = ins.kk], m, f)

opcode_7(c, ins, f, m, oc) ==
    LET a == CheckedAdd(c.reg[ins.x], ins.kk, U8, oc)
    IN  IF a.panic THEN Out("panic", c, m, f)
        ELSE Out("Ok", [c EXCEPT !.reg[ins.x] = a.val], m, f)

\* 8xy4: the u8 sum is formed first and only then widened to u16
op_8xy4(c, ins, oc) ==
    LET a   == CheckedAdd(c.reg[ins.x], c.reg[ins.y], U8, oc)
        sum == a.val
        r1  == [c.reg EXCEPT ![15] = IF sum > 255 THEN 1 ELSE 0]
    IN  [panic |-> a.panic, reg |-> [r1 EXCEPT ![ins.x] = sum % U8]]

\* 8xy5 with the flag set on x >= y
op_8xy5_Geq(c, ins) ==
    LET x  == c.reg[ins.x]
        y  == c.reg[ins.y]
        r1 == [c.reg EXCEPT ![15] = IF x >= y THEN 1 ELSE 0]
    IN  [r1 EXCEPT ![ins.x] = WrappingSub8(x, y)]

op_8xy5(c, ins) ==
    LET x  == c.reg[ins.x]
        y  == c.reg[ins.y]
        r1 == [c.reg EXCEPT ![15] = IF x > y THEN 1 ELSE 0]
    IN  [r1 EXCEPT ![ins.x] = WrappingSub8(x, y)]

\* 8xy6 with the flag taken after the shift
op_8xy6_FlagAfter(c, ins) ==
    LET r1 == [c.reg EXCEPT ![ins.x] = Shr(c.reg[ins.x], 1)]
    IN  [r1 EXCEPT ![15] = BitAnd(r1[ins.x], 1)]

op_8xy6(c, ins) ==
    LET r1 == [c.reg EXCEPT ![15] = BitAnd(c.reg[ins.x], 1)]
    IN  [r1 EXCEPT ![ins.x] = Shr(r1[ins.x], 1)]

op_8xy7(c, ins) ==
    LET x  == c.reg[ins.x]
        y  == c.reg[ins.y]
        r1 == [c.reg EXCEPT ![15] = IF y > x THEN 1 ELSE 0]
    IN  [r1 EXCEPT ![ins.x] = WrappingSub8(y, x)]

op_8xyE(c, ins) ==
    LET r1 == [c.reg EXCEPT ![15] = BitAnd(c.reg[ins.x], 128)]
    IN  [r1 EXCEPT ![ins.x] = Shl(r1[ins.x], 1, U8)]

opcode_8(c, ins, f, m, oc) ==
    CASE ins.n = 0 -> Out("Ok", [c EXCEPT !.reg[ins.x] = c.reg[ins.y]], m, f)
      [] ins.n = 1 ->
            Out("Ok", [c EXCEPT !.reg[ins.x] = BitOr(c.reg[ins.x], c.reg[ins.y])], m, f)
      [] ins.n = 2 ->
            Out("Ok", [c EXCEPT !.reg[ins.x] = BitAnd(c.reg[ins.x], c.reg[ins.y])], m, f)
      [] ins.n = 3 ->
            Out("Ok", [c EXCEPT !.reg[ins.x] = BitXor(c.reg[ins.x], c.reg[ins.y])], m, f)
      [] ins.n = 4 ->
            LET o == op_8xy4(c, ins, oc)
            IN  IF o.panic THEN Out("panic", c, m, f)
                ELSE Out("Ok", [c EXCEPT !.reg = o.reg], m, f)
      [] ins.n = 5 -> Out("Ok", [c EXCEPT !.reg = op_8xy5(c, ins)], m, f)
      [] ins.n = 6 -> Out("Ok", [c EXCEPT !.reg = op_8xy6(c, ins)], m, f)
      [] ins.n = 7 -> Out("Ok", [c EXCEPT !.reg = op_8xy7(c, ins)], m, f)
      [] ins.n = 14 -> Out("Ok", [c EXCEPT !.reg = op_8xyE(c, ins)], m, f)
      [] OTHER -> Out("UnknownOpcode", c, m, f)

opcode_9(c, ins, f, m, oc) ==
    IF ins.n = 0
    THEN IF c.reg[ins.x] # c.reg[ins.y] THEN Skip(c, m, f, oc) ELSE Out("Ok", c, m, f)
    ELSE Out("UnknownOpcode", c, m, f)

opcode_A(c, ins, f, m, oc) == Out("Ok", [c EXCEPT !.i = ins.nnn], m, f)

opcode_B(c, ins, f, m, oc) ==
    LET a == CheckedAdd(ins.nnn, c.reg[0], U16, oc)
    IN  IF a.panic THEN Out("panic", c, m, f)
        ELSE Out("Ok", [c EXCEPT !.pc = a.val], m, f)

\* rnd_num is the byte thread_rng() produced
opcode_C(c, ins, f, m, oc, rnd_num) ==
    Out("Ok", [c EXCEPT !.reg[ins.x] = BitAnd(rnd_num, ins.kk)], m, f)

opcode_D(c, ins, f, m, oc) == Out("Ok", c, m, [f EXCEPT !.draw = TRUE])

opcode_E(c, ins, f, m, oc) ==
    LET key == as_u8(f.key)
    IN  CASE ins.kk = 158 ->
                IF c.reg[ins.x] = key THEN Skip(c, m, f, oc) ELSE Out("Ok", c, m, f)
          [] ins.kk = 161 ->
                IF c.reg[ins.x] # key THEN Skip(c, m, f, oc) ELSE Out("Ok", c, m, f)
          [] OTHER -> Out("UnknownOpcode", c, m, f)

\* Fx33 with the digits stored below I: at I - 2, I - 1 and I
op_Fx33_Below(c, ins, f, m, oc) ==
    LET x0 == c.reg[ins.x]
        w2 == write_byte(m, c.i, x0 % 10)
        x1 == x0 \div 10
        a1 == CheckedSub(c.i, 1, U16, oc)
        w1 == write_byte(w2.mem, a1.val, x1 % 10)
        x2 == x1 \div 10
        a0 == CheckedSub(c.i, 2, U16, oc)
        w0 == write_byte(w1.mem, a0.val, x2 % 10)
    IN  IF w2.res # "Ok" THEN Out(w2.res, c, m, f)
        ELSE IF a1.panic THEN Out("panic", c, w2.mem, f)
        ELSE IF w1.res # "Ok" THEN Out(w1.res, c, w2.mem, f)
        ELSE IF a0.panic THEN Out("panic", c, w1.mem, f)
        ELSE IF w0.res # "Ok" THEN Out(w0.res, c, w1.mem, f)
        ELSE Out("Ok", c, w0.mem, f)

\* Fx33 with the digits in reverse order: ones at I, hundreds at I + 2
op_Fx33_Reversed(c, ins, f, m, oc) ==
    LET x0 == c.reg[ins.x]
        w0 == write_byte(m, c.i, x0 % 10)
        x1 == x0 \div 10
        a1 == CheckedAdd(c.i, 1, U16, oc)
        w1 == write_byte(w0.mem, a1.val, x1 % 10)
        x2 == x1 \div 10
        a2 == CheckedAdd(c.i, 2, U16, oc)
        w2 == write_byte(w1.mem, a2.val, x2 % 10)
    IN  IF w0.res # "Ok" THEN Out(w0.res, c, m, f)
        ELSE IF a1.panic THEN Out("panic", c, w0.mem, f)
        ELSE IF w1.res # "Ok" THEN Out(w1.res, c, w0.mem, f)
        ELSE IF a2.panic THEN Out("panic", c, w1.mem, f)
        ELSE IF w2.res # "Ok" THEN Out(w2.res, c, w1.mem, f)
        ELSE Out("Ok", c, w2.mem, f)

\* Fx33: the three write_byte calls, each followed by ?
op_Fx33(c, ins, f, m, oc) ==
    LET x0 == c.reg[ins.x]
        a2 == CheckedAdd(c.i, 2, U16, oc)
        w2 == write_byte(m, a2.val, x0 % 10)
        x1 == x0 \div 10
        a1 == CheckedAdd(c.i, 1, U16, oc)
        w1 == write_byte(w2.mem, a1.val, x1 % 10)
        x2 == x1 \div 10
        w0 == write_byte(w1.mem, c.i, x2 % 10)
    IN  IF a2.panic THEN Out("panic", c, m, f)
        ELSE IF w2.res # "Ok" THEN Out(w2.res, c, m, f)
        ELSE IF a1.panic THEN Out("panic", c, w2.mem, f)
        ELSE IF w1.res # "Ok" THEN Out(w1.res, c, w2.mem, f)
        ELSE IF w0.res # "Ok" THEN Out(w0.res, c, w1.mem, f)
        ELSE Out("Ok", c, w0.mem, f)

\* Fx55: for loc in 0..self.reg.len() { write_byte(i + loc, reg[loc]).unwrap() }
RECURSIVE op_Fx55(_, _, _, _)
op_Fx55(c, m, oc, loc) ==
    IF loc >= NumRegs THEN [res |-> "Ok", mem |-> m]
    ELSE LET a == CheckedAdd(c.i, loc, U16, oc)
             w == write_byte(m, a.val, c.reg[loc])
         IN  IF a.panic \/ w.res # "Ok" THEN [res |-> "panic", mem |-> m]
             ELSE op_Fx55(c, w.mem, oc, loc + 1)

\* Fx65: for loc in 0..self.reg.len() { reg[loc] = read_byte(i + loc).unwrap() }
RECURSIVE op_Fx65(_, _, _, _)
op_Fx65(c, m, oc, loc) ==
    IF loc >= NumRegs THEN [res |-> "Ok", cpu |-> c]
    ELSE LET a == CheckedAdd(c.i, loc, U16, oc)
             r == read_byte(m, a.val)
         IN  IF a.panic \/ r.res # "Ok" THEN [res |-> "panic", cpu |-> c]
             ELSE op_Fx65([c EXCEPT !.reg[loc] = r.val], m, oc, loc + 1)

\* Fx0A without the rewind of pc
op_Fx0A_NoRewind(c, ins, f, m, oc) ==
    LET key == as_u8(f.key)
    IN  IF key < 16 THEN Out("Ok", [c EXCEPT !.reg[ins.x] = key], m, f)
        ELSE Out("Ok", c, m, f)

\* Fx0A: if key < 16 { reg[x] = key } else { self.pc -= 2 }
op_Fx0A(c, ins, f, m, oc) ==
    LET key == as_u8(f.key)
    IN  IF key < 16 THEN Out("Ok", [c EXCEPT !.reg[ins.x] = key], m, f)
        ELSE LET s == CheckedSub(c.pc, 2, U16, oc)
             IN  IF s.panic THEN Out("panic", c, m, f)
                 ELSE Out("Ok", [c EXCEPT !.pc = s.val], m, f)

\* Fx29: the product is formed in u8 and only then widened to u16
op_Fx29(c, ins, f, m, oc) ==
    LET p == CheckedMul(c.reg[ins.x], 5, U8, oc)
    IN  IF p.panic THEN Out("panic", c, m, f)
        ELSE Out("Ok", [c EXCEPT !.i = 0 + p.val], m, f)

opcode_F(c, ins, m, f, oc) ==
    LET key == as_u8(f.key)
    IN  CASE ins.kk = 7 -> Out("Ok", [c EXCEPT !.reg[ins.x] = c.dt], m, f)
          [] ins.kk = 10 -> op_Fx0A(c, ins, f, m, oc)
          [] ins.kk = 21 -> Out("Ok", [c EXCEPT !.dt = c.reg[ins.x]], m, f)
          [] ins.kk = 24 -> Out("Ok", [c EXCEPT !.st = c.reg[ins.x]], m, f)
          [] ins.kk = 30 ->
                LET a == CheckedAdd(c.i, c.reg[ins.x], U16, oc)
                IN  IF a.panic THEN Out("panic", c, m, f)
                    ELSE Out("Ok", [c EXCEPT !.i = a.val], m, f)
          [] ins.kk = 41 -> op_Fx29(c, ins, f, m, oc)
          [] ins.kk = 51 -> op_Fx33(c, ins, f, m, oc)
          [] ins.kk = 85 ->
                LET o == op_Fx55(c, m, oc, 0) IN Out(o.res, c, o.mem, f)
          [] ins.kk = 101 ->
                LET o == op_Fx65(c, m, oc, 0) IN Out(o.res, o.cpu, m, f)
          [] OTHER -> Out("UnknownOpcode", c, m, f)

\* CPU::tick_timer is called by run() and is not defined in cpu.rs
tick_timer(c) ==
    [c EXCEPT !.dt = IF c.dt > 0 THEN c.dt - 1 ELSE 0,
              !.st = IF c.st > 0 THEN c.st - 1 ELSE 0]

----------------------------------------------------------------------------
(* display.rs: the canvas                                                  *)

\* The canvas is the set of pixels drawn green; last is the Display method
\* called last.
create == [canvas |-> {}, last |-> "create"]

clear(d) == [canvas |-> {}, last |-> "clear"]

draw(d, pixels) ==
    [canvas |-> {p \in 0..(VramSize - 1) : Get(pixels, p) = 1}, last |-> "draw"]

\* the keys user_event is made to return
KeySample == {"ZERO", "ONE", "F", "NONE", "QUIT"}

----------------------------------------------------------------------------
(* The ROM files load_rom is given.                                        *)

\* the instruction word of four nibbles, and of a nibble and an address
H(t, x, y, n) == t * 4096 + x * 256 + y * 16 + n
HA(t, nnn) == t * 4096 + nnn

\* the big-endian bytes of a sequence of instruction words
Bytes(ws) ==
    [k \in 1..(2 * Len(ws)) |->
        IF k % 2 = 1 THEN ws[(k + 1) \div 2] \div 256 ELSE ws[k \div 2] % 256]

\* the bytes thread_rng() is made to produce
ByteSample == {0, 1, 5, 10, 128, 129, 255}

\* the addresses the programs below load into I
AddrSample == {0, 65, 78, 80, 768, 4080, 4081, 4093, 4094, 4095}

RndV0 == H(12, 0, 15, 15)    \* C0FF: V0 = random byte
RndV1 == H(12, 1, 15, 15)    \* C1FF: V1 = random byte

\* C0FF ; C1FF ; 801N for every N, C0FF ; CFFF ; 80FN for 8xy5, 8xy6, 8xy7,
\* and CFFF ; C1FF ; 8F1N for the opcodes that define VF
RomAlu == { <<RndV0, RndV1, H(8, 0, 1, n)>> : n \in 0..15 }
            \cup { <<RndV0, H(12, 15, 15, 15), H(8, 0, 15, n)>> : n \in {5, 6, 7} }
            \cup { <<H(12, 15, 15, 15), RndV1, H(8, 15, 1, n)>> : n \in {4, 5, 6, 7, 14} }

\* C0FF ; 70kk, and 6005 ; 7003
RomAdd == { <<RndV0, H(7, 0, 0, 0) + kk>> : kk \in {0, 1, 3, 255} }
            \cup { <<H(6, 0, 0, 5), H(7, 0, 0, 3)>> }

\* C0FF ; C1FF ; then 3xkk, 4xkk, 5xyN, 9xyN
RomSkip == { <<RndV0, RndV1, w>> :
                w \in { H(3, 0, 0, 5), H(4, 0, 0, 5), H(5, 0, 1, 0), H(5, 0, 1, 1),
                        H(9, 0, 1, 0), H(9, 0, 1, 1) } }
            \cup { <<H(5, 0, 0, 1)>> }

\* 00EE alone; 2200 calling itself; a call and its return; jumps to the end of RAM
RomFlow ==
    { <<H(0, 0, 14, 14)>>,
      <<HA(2, 512)>>,
      <<HA(2, 516), HA(1, 514), H(0, 0, 14, 14)>>,
      <<HA(1, 768)>>,
      <<HA(1, 4094)>>,
      <<HA(1, 4095)>>,
      <<RndV0, HA(11, 4095)>>,
      <<H(0, 1, 14, 0)>>,
      <<H(0, 1, 14, 14)>> }

\* the deepest nesting of calls the programs below make
NestDepth == 16

\* d nested calls and their returns: 0x200 calls the subroutine at 0x204,
\* the k-th subroutine (at 0x204 + 4k) calls the next and returns, the last
\* only returns; the word at 0x202, reached by the last return, is 0000
RomNest(d) ==
    <<HA(2, 516), 0>>
    \o [j \in 1..(2 * (d - 1)) |->
          IF j % 2 = 1 THEN HA(2, 516 + 4 * ((j + 1) \div 2)) ELSE H(0, 0, 14, 14)]
    \o <<H(0, 0, 14, 14)>>

\* A000 ; D005, alone and after 00E0
RomDraw ==
    { <<HA(10, 0), H(13, 0, 0, 5)>>,
      <<H(0, 0, 14, 0), HA(10, 0), H(13, 0, 0, 5)>> }

\* C0FF ; Annn ; F033, and 60kk ; A300 ; F033 for every byte kk
RomBcd == { <<RndV0, HA(10, a), H(15, 0, 3, 3)>> : a \in AddrSample }
            \cup { <<H(6, 0, 0, 0) + kk, HA(10, 768), H(15, 0, 3, 3)>> : kk \in 0..(U8 - 1) }

\* C1FF ; Annn ; Fx55
RomStore == { <<RndV1, HA(10, a), H(15, x, 5, 5)>> : a \in AddrSample, x \in {0, 1, 15} }

\* 6F07 ; Annn ; Fx65
RomLoad == { <<H(6, 15, 0, 7), HA(10, a), H(15, x, 6, 5)>> :
                a \in AddrSample, x \in {0, 1, 15} }

\* C0FF ; AFFF ; F01E ; then F033, F055, F065 with I past the end of RAM
RomPastEnd == { <<RndV0, HA(10, 4095), H(15, 0, 1, 14), w>> :
                   w \in { H(15, 0, 3, 3), H(15, 0, 5, 5), H(15, 0, 6, 5) } }

\* C0FF ; then Ex9E, ExA1, Exkk, Fxkk; 6010 ; E09E and 6010 ; E0A1
RomKeysAndTimers ==
    { <<RndV0, w>> :
         w \in { H(14, 0, 9, 14), H(14, 0, 10, 1), H(14, 0, 0, 0),
                 H(15, 0, 0, 7), H(15, 0, 0, 10), H(15, 0, 1, 5), H(15, 0, 1, 8),
                 H(15, 0, 1, 14), H(15, 0, 2, 9), H(15, 0, 0, 0), H(15, 0, 15, 15) } }
    \cup { <<H(6, 0, 1, 0), H(14, 0, 9, 14)>>, <<H(6, 0, 1, 0), H(14, 0, 10, 1)>>,
           <<H(15, 1, 0, 10)>> }

RomWords ==
    RomAlu \cup RomAdd \cup RomSkip \cup RomFlow \cup { RomNest(d) : d \in 1..NestDepth }
    \cup RomDraw \cup RomBcd
    \cup RomStore \cup RomLoad \cup RomPastEnd \cup RomKeysAndTimers

\* one byte more than fits between rom_location and the end of RAM
BigRom == [k \in 1..(RamSize - RomLocation + 1) |-> 0]

Roms == { Bytes(ws) : ws \in RomWords } \cup {BigRom}

----------------------------------------------------------------------------
(* system.rs and main.rs                                                   *)

Done(r) ==
    /\ at' = "done"
    /\ result' = r

\* System::create, before load_rom
Init ==
    /\ cpu = init
    /\ mem = allocate
    /\ flags = [draw |-> FALSE, clear |-> FALSE, sound |-> FALSE, key |-> "NONE"]
    /\ display = create
    /\ data = 0
    /\ mem_addr = 0
    /\ instr = NoInstr
    /\ at = "load"
    /\ result = "running"
    /\ overflow_checks \in BOOLEAN

\* load_rom: File::open fails
LoadRomFails ==
    /\ at = "load"
    /\ Done("RomLoadFailure")
    /\ UNCHANGED <<cpu, mem, flags, display, data, mem_addr, instr, overflow_checks>>

\* load_rom: the file is read and written into memory
LoadRom ==
    /\ at = "load"
    /\ \E bytes \in Roms :
          LET w == write_rom_data(mem, bytes)
          IN  IF w.res = "Ok"
              THEN /\ mem' = w.mem
                   /\ at' = "poll"
                   /\ UNCHANGED result
              ELSE /\ Done(w.res)
                   /\ UNCHANGED mem
    /\ UNCHANGED <<cpu, flags, display, data, mem_addr, instr, overflow_checks>>

\* run: let key_press = self.display.user_event()?; match key_press
\* (SDL's event_pump() is taken to succeed)
UserEvent ==
    /\ at = "poll"
    /\ display' = [display EXCEPT !.last = "user_event"]
    /\ \E key_press \in KeySample :
          IF key_press = "QUIT"
          THEN /\ Done("Ok")
               /\ UNCHANGED flags
          ELSE /\ flags' = [flags EXCEPT !.key = key_press]
               /\ at' = "fetch"
               /\ UNCHANGED result
    /\ UNCHANGED <<cpu, mem, data, mem_addr, instr, overflow_checks>>

\* run: let mem_addr = self.cpu.register_pc(); let data = self.mem.read_word(mem_addr)?
Fetch ==
    /\ at = "fetch"
    /\ LET r == register_pc(cpu, overflow_checks)
           w == read_word(mem, r.loc)
       IN  IF r.panic
           THEN /\ Done("panic")
                /\ UNCHANGED <<cpu, mem_addr, data>>
           ELSE /\ cpu' = r.cpu
                /\ mem_addr' = r.loc
                /\ IF w.res = "Ok"
                   THEN /\ data' = w.val
                        /\ at' = "decode"
                        /\ UNCHANGED result
                   ELSE /\ Done(w.res)
                        /\ UNCHANGED data
    /\ UNCHANGED <<mem, flags, display, instr, overflow_checks>>

\* run: let instr = Instruction::decode(data)
Decode ==
    /\ at = "decode"
    /\ instr' = decode(data)
    /\ at' = "execute"
    /\ UNCHANGED <<cpu, mem, flags, display, data, mem_addr, result, overflow_checks>>

\* run: self.cpu.execute(instr, &mut self.flags, &mut self.mem)?
Execute(itype, o) ==
    /\ at = "execute"
    /\ instr.itype = itype
    /\ cpu' = o.cpu
    /\ mem' = o.mem
    /\ flags' = o.flags
    /\ IF o.res = "Ok"
       THEN at' = "present" /\ UNCHANGED result
       ELSE Done(o.res)
    /\ UNCHANGED <<display, data, mem_addr, instr, overflow_checks>>

Opcode0 == Execute(0, opcode_0(cpu, instr, flags, mem, overflow_checks))
Opcode1 == Execute(1, opcode_1(cpu, instr, flags, mem, overflow_checks))
Opcode2 == Execute(2, opcode_2(cpu, instr, flags, mem, overflow_checks))
Opcode3 == Execute(3, opcode_3(cpu, instr, flags, mem, overflow_checks))
Opcode4 == Execute(4, opcode_4(cpu, instr, flags, mem, overflow_checks))
Opcode5 == Execute(5, opcode_5(cpu, instr, flags, mem, overflow_checks))
Opcode6 == Execute(6, opcode_6(cpu, instr, flags, mem, overflow_checks))
Opcode7 == Execute(7, opcode_7(cpu, instr, flags, mem, overflow_checks))
Opcode8 == Execute(8, opcode_8(cpu, instr, flags, mem, overflow_checks))
Opcode9 == Execute(9, opcode_9(cpu, instr, flags, mem, overflow_checks))
OpcodeA == Execute(10, opcode_A(cpu, instr, flags, mem, overflow_checks))
OpcodeB == Execute(11, opcode_B(cpu, instr, flags, mem, overflow_checks))
OpcodeC ==
    \E rnd_num \in ByteSample :
        Execute(12, opcode_C(cpu, instr, flags, mem, overflow_checks, rnd_num))
OpcodeD == Execute(13, opcode_D(cpu, instr, flags, mem, overflow_checks))
OpcodeE == Execute(14, opcode_E(cpu, instr, flags, mem, overflow_checks))
OpcodeF == Execute(15, opcode_F(cpu, instr, mem, flags, overflow_checks))

\* run: if self.flags.clear { ... }  if self.flags.draw { ... }
Present ==
    /\ at = "present"
    /\ LET d1 == IF flags.clear THEN clear(display) ELSE display
           d2 == IF flags.draw THEN draw(d1, get_vram(mem)) ELSE d1
       IN  display' = d2
    /\ flags' = [flags EXCEPT !.clear = FALSE, !.draw = FALSE]
    /\ at' = "tick"
    /\ UNCHANGED <<cpu, mem, data, mem_addr, instr, result, overflow_checks>>

\* the end of the iteration without the call of tick_timer
TickTimer_NoTick ==
    /\ at = "tick"
    /\ data' = 0
    /\ mem_addr' = 0
    /\ instr' = NoInstr
    /\ at' = "poll"
    /\ UNCHANGED <<cpu, mem, flags, display, result, overflow_checks>>

\* run: self.cpu.tick_timer(); thread::sleep(..); the iteration's locals end here
TickTimer ==
    /\ at = "tick"
    /\ cpu' = tick_timer(cpu)
    /\ data' = 0
    /\ mem_addr' = 0
    /\ instr' = NoInstr
    /\ at' = "poll"
    /\ UNCHANGED <<mem, flags, display, result, overflow_checks>>

Next ==
    \/ LoadRomFails
    \/ LoadRom
    \/ UserEvent
    \/ Fetch
    \/ Decode
    \/ Opcode0 \/ Opcode1 \/ Opcode2 \/ Opcode3
    \/ Opcode4 \/ Opcode5 \/ Opcode6 \/ Opcode7
    \/ Opcode8 \/ Opcode9 \/ OpcodeA \/ OpcodeB
    \/ OpcodeC \/ OpcodeD \/ OpcodeE \/ OpcodeF
    \/ Present
    \/ TickTimer

Spec == Init /\ [][Next]_vars

----------------------------------------------------------------------------
(* The decoder on every word: the machine as run() has it after fetching   *)
(* the first word of a ROM that holds the single word w, for every u16 w   *)
(* (no key pressed; decode does no arithmetic that the build profile       *)
(* touches, so one profile is taken).                                      *)

InitDecode ==
    \E w \in 0..(U16 - 1) :
        /\ cpu = [init EXCEPT !.pc = RomLocation + 2]
        /\ mem = write_rom_data(allocate, Bytes(<<w>>)).mem
        /\ flags = [draw |-> FALSE, clear |-> FALSE, sound |-> FALSE, key |-> "NONE"]
        /\ display = [create EXCEPT !.last = "user_event"]
        /\ data = w
        /\ mem_addr = RomLocation
        /\ instr = NoInstr
        /\ at = "decode"
        /\ result = "running"
        /\ overflow_checks = FALSE

SpecDecode == InitDecode /\ [][Decode]_vars

----------------------------------------------------------------------------
(* The call stack on its own: push_stack(a) followed by pop_stack() on a   *)
(* memory whose stack holds d return addresses, for d in 0..15.  The       *)
(* entries are those d nested calls of RomNest leave; data holds a and     *)
(* mem_addr receives what pop_stack returns.                               *)

\* the values pushed
StackAddrs == {0, 1, 514, 4095, 4096, 4660, 32768, U16 - 1}

\* the return address of the k-th nested call of RomNest, k counted from 0
NestReturn(k) == RomLocation + 2 + 4 * k

InitStack ==
    \E d \in 0..(StackSize - 1), a \in StackAddrs :
        /\ cpu = [init EXCEPT !.sp = d]
        /\ mem = [allocate EXCEPT
                    !.stack = [k \in 0..(StackSize - 1) |->
                                  IF k < d THEN NestReturn(k) ELSE 0],
                    !.sp = d]
        /\ flags = [draw |-> FALSE, clear |-> FALSE, sound |-> FALSE, key |-> "NONE"]
        /\ display = create
        /\ data = a
        /\ mem_addr = 0
        /\ instr = NoInstr
        /\ at = "push"
        /\ result = "running"
        /\ overflow_checks \in BOOLEAN

PushStack ==
    /\ at = "push"
    /\ LET p == push_stack(mem, data)
       IN  /\ mem' = p.mem
           /\ IF p.res = "Ok" THEN at' = "pop" /\ UNCHANGED result ELSE Done(p.res)
    /\ UNCHANGED <<cpu, flags, display, data, mem_addr, instr, overflow_checks>>

PopStack ==
    /\ at = "pop"
    /\ LET p == pop_stack(mem)
       IN  /\ mem' = p.mem
           /\ mem_addr' = p.val
           /\ IF p.res = "Ok" THEN at' = "popped" /\ UNCHANGED result ELSE Done(p.res)
    /\ UNCHANGED <<cpu, flags, display, data, instr, overflow_checks>>

NextStack == PushStack \/ PopStack

SpecStack == InitStack /\ [][NextStack]_vars

----------------------------------------------------------------------------
(* Claims.                                                                 *)

\* the engine is about to execute an instruction of family t
Executing(t) == at = "execute" /\ instr.itype = t

\* the operands of the instruction about to execute
Vx == cpu.reg[instr.x]
Vy == cpu.reg[instr.y]

(* C1: for every 16-bit word w, decode(w) yields itype = (w >> 12) & 0xF,  *)
(* x = (w >> 8) & 0xF, y = (w >> 4) & 0xF, n = w & 0xF, kk = w & 0xFF and  *)
(* nnn = w & 0xFFF, and no word fails to decode: whenever a word has been  *)
(* fetched the decode step can be taken, and after it the fields of instr  *)
(* are those digits of data.                                               *)
C1_DecodeFields ==
    /\ at = "decode" => ENABLED Decode
    /\ at = "execute" =>
          /\ instr.itype = (data \div 4096) % 16
          /\ instr.x = (data \div 256) % 16
          /\ instr.y = (data \div 16) % 16
          /\ instr.n = data % 16
          /\ instr.kk = data % 256
          /\ instr.nnn = data % 4096

\* the word 0x1234 has been decoded
C1_Witness ==
    /\ at = "execute"
    /\ data = 4660
    /\ instr = [itype |-> 1, x |-> 2, y |-> 3, n |-> 4, kk |-> 52, nnn |-> 564]

(* C2: executing 8xy4 with x # 0xF completes without failure and leaves    *)
(* Vx = (Vx + Vy) mod 256 and VF = 1 if Vx + Vy exceeds 255, else VF = 0.  *)
C2_AddCarry ==
    [][ (Executing(8) /\ instr.n = 4 /\ instr.x # 15) =>
            /\ result' = "running"
            /\ cpu'.reg[instr.x] = (Vx + Vy) % 256
            /\ cpu'.reg[15] = (IF Vx + Vy > 255 THEN 1 ELSE 0) ]_vars

(* C3: executing 8xyE with x # 0xF completes without failure, leaves VF    *)
(* exactly 1 when bit 7 of the old Vx was set and exactly 0 otherwise, and *)
(* leaves Vx = (old Vx * 2) mod 256.                                       *)
C3_ShiftLeftFlag ==
    [][ (Executing(8) /\ instr.n = 14 /\ instr.x # 15) =>
            /\ result' = "running"
            /\ cpu'.reg[15] = (Vx \div 128) % 2
            /\ cpu'.reg[instr.x] = (Vx * 2) % 256 ]_vars

(* C4: executing 7xkk completes without failure, leaves                    *)
(* Vx = (Vx + kk) mod 256, and leaves VF unchanged when x # 0xF.           *)
C4_AddByteWraps ==
    [][ Executing(7) =>
            /\ result' = "running"
            /\ cpu'.reg[instr.x] = (Vx + instr.kk) % 256
            /\ instr.x # 15 => cpu'.reg[15] = cpu.reg[15] ]_vars

\* bit k (0 = leftmost) of row r of the sprite at I
SpriteBit(r, k) == (Get(mem.ram, cpu.i + r) \div Pow2(7 - k)) % 2

\* the video buffer index of the sprite's pixel (r, k) drawn at (Vx, Vy)
SpritePixel(r, k) == (Vy + r) * 64 + Vx + k

(* C5: executing Dxyn XORs the n sprite bytes memory[I..I+n] onto the      *)
(* video buffer at (Vx, Vy) (index = y*64 + x) and sets VF = 1 if any      *)
(* pixel went from set to unset, else VF = 0; a non-zero sprite drawn onto *)
(* a blank buffer leaves at least one pixel set.  Stated for sprites that  *)
(* lie wholly inside the 64x32 buffer and inside RAM.                      *)
C5_DrawXorsSprite ==
    [][ (/\ Executing(13)
         /\ Vx + 8 <= 64
         /\ Vy + instr.n <= 32
         /\ cpu.i + instr.n <= RamSize) =>
            LET rows == 0..(instr.n - 1)
                cols == 0..7
            IN  /\ result' = "running"
                /\ \A r \in rows, k \in cols :
                      Get(mem'.vram, SpritePixel(r, k)) =
                          (Get(mem.vram, SpritePixel(r, k)) + SpriteBit(r, k)) % 2
                /\ cpu'.reg[15] =
                      (IF \E r \in rows, k \in cols :
                             Get(mem.vram, SpritePixel(r, k)) = 1 /\ SpriteBit(r, k) = 1
                       THEN 1 ELSE 0)
                /\ ( /\ \A p \in 0..(VramSize - 1) : Get(mem.vram, p) = 0
                     /\ \E r \in rows, k \in cols : SpriteBit(r, k) = 1 )
                   => \E p \in 0..(VramSize - 1) : Get(mem'.vram, p) # 0 ]_vars

(* C6: 00EE on an empty stack and 2nnn on a stack holding 16 entries end   *)
(* the run with a returned error (not a panic, and not by carrying on),    *)
(* and the stack pointer stays within 0..16.                               *)
C6_StackErrorsReturned ==
    [][ ( \/ Executing(0) /\ instr.kk = 238 /\ mem.sp = 0
          \/ Executing(2) /\ mem.sp = StackSize ) =>
            /\ result' \notin {"running", "Ok", "panic"}
            /\ mem'.sp \in 0..StackSize ]_vars

\* addresses on both sides of the end of RAM
ProbeAddrs == {0, 4094, 4095, 4096, 4097, U16 - 1}

(* C7: read_byte(addr) and write_byte(addr, v) fail with OutOfBounds       *)
(* exactly when addr >= 0x1000; read_word(addr), which the fetch calls     *)
(* with addr = PC, returns (ram[addr] << 8) | ram[addr+1] when             *)
(* addr <= 0xFFE and fails with OutOfBounds when addr or addr+1 exceeds    *)
(* 0xFFF, so the fetch at PC = 0xFFF ends the run with OutOfBounds.        *)
C7_BoundsChecked ==
    [][ /\ \A a \in ProbeAddrs :
              /\ read_byte(mem, a).res = (IF a >= 4096 THEN "OutOfBounds" ELSE "Ok")
              /\ write_byte(mem, a, 1).res = (IF a >= 4096 THEN "OutOfBounds" ELSE "Ok")
        /\ at = "fetch" =>
              IF cpu.pc <= 4094
              THEN /\ at' = "decode"
                   /\ data' = Get(mem.ram, cpu.pc) * 256 + Get(mem.ram, cpu.pc + 1)
              ELSE result' = "OutOfBounds" ]_vars

\* the sixteen 4x5 hex glyphs, one row of four pixels per entry
GlyphRows ==
    << <<15, 9, 9, 9, 15>>,   <<2, 6, 2, 2, 7>>,     <<15, 1, 15, 8, 15>>,
       <<15, 1, 15, 1, 15>>,  <<9, 9, 15, 1, 1>>,    <<15, 8, 15, 1, 15>>,
       <<15, 8, 15, 9, 15>>,  <<15, 1, 2, 4, 4>>,    <<15, 9, 15, 9, 15>>,
       <<15, 9, 15, 1, 15>>,  <<15, 9, 15, 9, 9>>,   <<14, 9, 14, 9, 14>>,
       <<15, 8, 8, 8, 15>>,   <<14, 9, 9, 9, 14>>,   <<15, 8, 15, 8, 15>>,
       <<15, 8, 15, 8, 8>> >>

\* memory[0..80) holds the glyph table, each row in the high nibble of its byte
FontIntact(m) ==
    \A g \in 0..15, r \in 0..4 : Get(m.ram, g * 5 + r) = GlyphRows[g + 1][r + 1] * 16

(* C8 as stated: in every reachable state memory[0..80) equals the hex     *)
(* glyph table; no instruction, Fx33 and Fx55 with I < 80 included,        *)
(* overwrites it.                                                          *)
C8_FontNeverOverwritten == FontIntact(mem)

\* Fx33 or Fx55 is about to execute with I below the end of the font or
\* past the end of RAM
StoresOutsideProgramRam ==
    /\ Executing(15)
    /\ instr.kk \in {51, 85}
    /\ (cpu.i < 80 \/ cpu.i > 4095)

(* C8 amended: memory[0..80) equals the hex glyph table after              *)
(* initialization, and every step of the machine keeps it so (ROM loading  *)
(* and every instruction) except the execution of Fx33 or Fx55 with        *)
(* I < 80 or I > 0xFFF.                                                    *)
C8_FontKeptUnlessStoredOver ==
    /\ FontIntact(mem)
    /\ [][ (FontIntact(mem) /\ ~StoresOutsideProgramRam) => FontIntact(mem') ]_vars

\* Fx33 has stored the digits of 129 at I = 80, right after the font
C8_Witness ==
    /\ at = "present"
    /\ instr.itype = 15 /\ instr.kk = 51
    /\ cpu.i = 80
    /\ Get(mem.ram, 80) = 1 /\ Get(mem.ram, 81) = 2 /\ Get(mem.ram, 82) = 9
    /\ FontIntact(mem)

(* C9: Fx55 writes exactly V0..Vx to memory[I..I+x] and leaves every other *)
(* memory byte unchanged, and Fx65 loads exactly V0..Vx from               *)
(* memory[I..I+x] and leaves V(x+1)..VF unchanged (I + x within RAM).      *)
C9_StoreLoadExactlyX ==
    [][ /\ (Executing(15) /\ instr.kk = 85 /\ cpu.i + instr.x <= 4095) =>
              /\ result' = "running"
              /\ \A a \in 0..(RamSize - 1) :
                    Get(mem'.ram, a) = (IF a >= cpu.i /\ a <= cpu.i + instr.x
                                        THEN cpu.reg[a - cpu.i] ELSE Get(mem.ram, a))
        /\ (Executing(15) /\ instr.kk = 101 /\ cpu.i + instr.x <= 4095) =>
              /\ result' = "running"
              /\ \A r \in DOMAIN cpu.reg :
                    cpu'.reg[r] = (IF r <= instr.x
                                   THEN Get(mem.ram, cpu.i + r) ELSE cpu.reg[r]) ]_vars

\* the instruction matches a row of the ISA table
Documented(ins) ==
    CASE ins.itype = 0 -> ins.nnn \in {224, 238}
      [] ins.itype = 5 -> ins.n = 0
      [] ins.itype = 8 -> ins.n \in (0..7) \cup {14}
      [] ins.itype = 9 -> ins.n = 0
      [] ins.itype = 14 -> ins.kk \in {158, 161}
      [] ins.itype = 15 -> ins.kk \in {7, 10, 21, 24, 30, 41, 51, 85, 101}
      [] OTHER -> TRUE

(* C10: executing a word that matches no row of the ISA table fails with   *)
(* UnknownOpcode; it is never executed as a no-op or as another opcode.    *)
C10_UnknownOpcodeFails ==
    [][ (at = "execute" /\ ~Documented(instr)) => result' = "UnknownOpcode" ]_vars

\* one tick of a timer
Ticked(t) == IF t > 0 THEN t - 1 ELSE 0

C12_KeyWaitPolls ==
    [][ /\ (Executing(15) /\ instr.kk = 10 /\ flags.key = "NONE") =>
              /\ result' = "running"
              /\ cpu'.pc = mem_addr
              /\ cpu'.reg = cpu.reg
              /\ mem' = mem
        /\ (Executing(15) /\ instr.kk = 10 /\ as_u8(flags.key) \in 0..15) =>
              /\ result' = "running"
              /\ cpu'.reg[instr.x] = as_u8(flags.key)
              /\ cpu'.pc = mem_addr + 2
        /\ at \in {"present", "tick", "poll"} =>
              /\ cpu'.pc = cpu.pc /\ cpu'.reg = cpu.reg /\ mem'.ram = mem.ram
        /\ (at = "fetch" /\ at' = "decode") =>
              /\ mem_addr' = cpu.pc
              /\ data' = Get(mem.ram, cpu.pc) * 256 + Get(mem.ram, cpu.pc + 1) ]_vars

\* F10A at 0x200 was executed twice with no key and then with key F
C12_Witness ==
    /\ at = "present"
    /\ data = H(15, 1, 0, 10)
    /\ mem_addr = RomLocation
    /\ cpu.dt = TimerInit - 2
    /\ flags.key = "F"
    /\ cpu.reg[1] = 15
    /\ cpu.pc = RomLocation + 2

(* C13: executing 8xy5 with x # 0xF leaves Vx = (Vx - Vy) mod 256 and      *)
(* VF = 1 if old Vx > old Vy, else 0 (0 when they are equal); executing    *)
(* 8xy7 with x # 0xF leaves Vx = (Vy - Vx) mod 256 and VF = 1 if           *)
(* old Vy > old Vx, else 0; neither fails.                                 *)
C13_SubBorrow ==
    [][ /\ (Executing(8) /\ instr.n = 5 /\ instr.x # 15) =>
              /\ result' = "running"
              /\ cpu'.reg[instr.x] = (Vx - Vy + 256) % 256
              /\ cpu'.reg[15] = (IF Vx > Vy THEN 1 ELSE 0)
        /\ (Executing(8) /\ instr.n = 7 /\ instr.x # 15) =>
              /\ result' = "running"
              /\ cpu'.reg[instr.x] = (Vy - Vx + 256) % 256
              /\ cpu'.reg[15] = (IF Vy > Vx THEN 1 ELSE 0) ]_vars

\* 8015 with V0 = 0x05 and V1 = 0x0A left V0 = 0xFB and VF = 0
C13_Witness ==
    /\ at = "present"
    /\ data = H(8, 0, 1, 5)
    /\ cpu.reg[0] = 251
    /\ cpu.reg[1] = 10
    /\ cpu.reg[15] = 0

(* C14: executing 8xy6 with x # 0xF leaves VF = old Vx & 1 and             *)
(* Vx = old Vx >> 1, whatever Vy holds, changes no other register and does *)
(* not fail.                                                               *)
C14_ShiftRight ==
    [][ (Executing(8) /\ instr.n = 6 /\ instr.x # 15) =>
            /\ result' = "running"
            /\ cpu'.reg[15] = Vx % 2
            /\ cpu'.reg[instr.x] = Vx \div 2
            /\ \A r \in DOMAIN cpu.reg \ {instr.x, 15} : cpu'.reg[r] = cpu.reg[r] ]_vars

\* 8016 with V0 = 0x81 and V1 = 0xFF left V0 = 0x40 and VF = 1
C14_Witness ==
    /\ at = "present"
    /\ data = H(8, 0, 1, 6)
    /\ cpu.reg[0] = 64
    /\ cpu.reg[1] = 255
    /\ cpu.reg[15] = 1

(* C15: fetch advances PC by 2 before the opcode is interpreted (the word  *)
(* is read at the old PC); a cycle executing 1nnn ends with PC = nnn       *)
(* exactly, and a cycle executing 3xkk fetched at address a ends with      *)
(* PC = a + 4 when Vx = kk and PC = a + 2 otherwise; nothing after the     *)
(* execution changes PC before the next fetch.                             *)
C15_FetchThenOverride ==
    [][ /\ at = "fetch" =>
              /\ cpu'.pc = cpu.pc + 2
              /\ mem_addr' = cpu.pc
        /\ at \in {"decode", "execute"} => cpu.pc = mem_addr + 2
        /\ Executing(1) =>
              /\ result' = "running"
              /\ cpu'.pc = instr.nnn
        /\ Executing(3) =>
              /\ result' = "running"
              /\ cpu'.pc = (IF Vx = instr.kk THEN mem_addr + 4 ELSE mem_addr + 2)
        /\ at \in {"present", "tick", "poll"} => cpu'.pc = cpu.pc ]_vars

\* C0FF ; C1FF ; 3005 with V0 = 5: the skip was taken from 0x204 to 0x208
C15_Witness ==
    /\ at = "tick"
    /\ data = H(3, 0, 0, 5)
    /\ mem_addr = RomLocation + 4
    /\ cpu.reg[0] = 5
    /\ cpu.pc = RomLocation + 8

(* C16: a 2nnn call fetched at address a, with fewer than 16 calls         *)
(* outstanding, pushes a + 2 on top of the entries already there and sets  *)
(* PC = nnn; 00EE with at least one call outstanding sets PC to the top    *)
(* entry and removes it, leaving the entries below; no other step touches  *)
(* the stack.  So each 00EE returns to the address following its own call  *)
(* (LIFO order).                                                           *)
C16_CallReturnLifo ==
    [][ /\ (Executing(2) /\ mem.sp < StackSize) =>
              /\ result' = "running"
              /\ cpu'.pc = instr.nnn
              /\ mem'.sp = mem.sp + 1
              /\ mem'.stack[mem.sp] = mem_addr + 2
              /\ \A k \in 0..(mem.sp - 1) : mem'.stack[k] = mem.stack[k]
        /\ (Executing(0) /\ instr.kk = 238 /\ mem.sp \in 1..StackSize) =>
              /\ result' = "running"
              /\ cpu'.pc = mem.stack[mem.sp - 1]
              /\ mem'.sp = mem.sp - 1
              /\ \A k \in 0..(mem.sp - 2) : mem'.stack[k] = mem.stack[k]
        /\ ~(Executing(2) \/ (Executing(0) /\ instr.kk = 238)) =>
              /\ mem'.sp = mem.sp
              /\ mem'.stack = mem.stack ]_vars

\* sixteen nested calls have all returned: the last 00EE, fetched at 0x206,
\* came back to 0x202, and the stack still shows the sixteen return addresses
C16_Witness ==
    /\ at = "present"
    /\ data = H(0, 0, 14, 14)
    /\ mem_addr = RomLocation + 6
    /\ cpu.pc = RomLocation + 2
    /\ mem.sp = 0
    /\ \A k \in 0..(StackSize - 1) : mem.stack[k] = NestReturn(k)

(* C17: push_stack(a) immediately followed by pop_stack() returns a and    *)
(* restores the stack pointer and all previously pushed entries, for every *)
(* pushed value a and every stack depth 0..15 before the push; neither     *)
(* call fails.                                                             *)
C17_StackRoundTrip ==
    /\ at # "done"
    /\ at = "pop" => mem.sp = cpu.sp + 1
    /\ at = "popped" =>
          /\ mem_addr = data
          /\ mem.sp = cpu.sp
          /\ \A k \in 0..(mem.sp - 1) : mem.stack[k] = NestReturn(k)

\* 0x1234 was pushed on a stack of 15 entries and popped again
C17_Witness ==
    /\ at = "popped"
    /\ data = 4660
    /\ mem_addr = 4660
    /\ mem.sp = StackSize - 1

(* C18: Fx33 with I + 2 <= 0xFFF writes memory[I] = Vx / 100,              *)
(* memory[I+1] = (Vx / 10) mod 10 and memory[I+2] = Vx mod 10, changes no  *)
(* other memory byte and no register, and does not fail.                   *)
C18_BcdDigits ==
    [][ (Executing(15) /\ instr.kk = 51 /\ cpu.i + 2 <= 4095) =>
            /\ result' = "running"
            /\ Get(mem'.ram, cpu.i) = Vx \div 100
            /\ Get(mem'.ram, cpu.i + 1) = (Vx \div 10) % 10
            /\ Get(mem'.ram, cpu.i + 2) = Vx % 10
            /\ \A a \in 0..(RamSize - 1) \ {cpu.i, cpu.i + 1, cpu.i + 2} :
                  Get(mem'.ram, a) = Get(mem.ram, a)
            /\ cpu' = cpu ]_vars

\* 609C ; A300 ; F033: the digits 1, 5, 6 of 156 are at 0x300..0x302
C18_Witness ==
    /\ at = "present"
    /\ data = H(15, 0, 3, 3)
    /\ cpu.reg[0] = 156
    /\ cpu.i = 768
    /\ Get(mem.ram, 768) = 1 /\ Get(mem.ram, 769) = 5 /\ Get(mem.ram, 770) = 6

(* C19: executing Fx29 sets I = 0 + Vx * 5 for the value held in Vx,       *)
(* without failure and without 8-bit truncation of the product; for Vx in  *)
(* 0..15 the five bytes at I are then the glyph of hex digit Vx.           *)
C19_FontAddress ==
    [][ (Executing(15) /\ instr.kk = 41) =>
            /\ result' = "running"
            /\ cpu'.i = 0 + Vx * 5
            /\ Vx \in 0..15 =>
                  \A r \in 0..4 :
                      Get(mem'.ram, cpu'.i + r) = GlyphRows[Vx + 1][r + 1] * 16 ]_vars

\* RAM holds the font and the ROM 6005 ; 7003 at 0x200, and nothing else
Rom6005_7003 == mem.ram = SetAll(SetAll(Zeroed, 0, fonts), RomLocation, <<96, 5, 112, 3>>)

(* C20: on a fresh machine with the ROM 0x6005 ; 0x7003 loaded at 0x200,   *)
(* the first cycle (fetched at 0x200) yields V0 = 5 and PC = 0x202 and the *)
(* second (fetched at 0x202) yields V0 = 8 and PC = 0x204; neither fails,  *)
(* and all other general registers, I and the stack stay as they were.     *)
C20_TwoCycles ==
    Rom6005_7003 =>
        /\ \A r \in 1..(NumRegs - 1) : cpu.reg[r] = 0
        /\ cpu.i = 0
        /\ cpu.sp = 0 /\ mem.sp = 0
        /\ \A k \in 0..(StackSize - 1) : mem.stack[k] = 0
        /\ at \in {"poll", "fetch"} =>
              <<cpu.pc, cpu.reg[0]>> \in {<<512, 0>>, <<514, 5>>, <<516, 8>>}
        /\ at \in {"decode", "execute"} =>
              <<mem_addr, cpu.pc, cpu.reg[0]>>
                  \in {<<512, 514, 0>>, <<514, 516, 5>>, <<516, 518, 8>>}
        /\ at \in {"present", "tick"} =>
              <<mem_addr, cpu.pc, cpu.reg[0]>> \in {<<512, 514, 5>>, <<514, 516, 8>>}
        /\ at = "done" =>
              \/ result = "Ok"
              \/ result = "UnknownOpcode" /\ mem_addr = 516 /\ cpu.reg[0] = 8

\* the second cycle has executed 7003
C20_Witness ==
    /\ Rom6005_7003
    /\ at = "tick"
    /\ data = H(7, 0, 0, 3)
    /\ mem_addr = RomLocation + 2
    /\ cpu.reg[0] = 8
    /\ cpu.pc = RomLocation + 4

(* C21: in every flag-defining opcode (8xy4, 8xy5, 8xy6, 8xy7, 8xyE) VF is *)
(* written last: when x = 0xF, VF after the execution holds the carry,     *)
(* borrow or shifted-out flag computed from the values the operands had    *)
(* before the instruction, not the arithmetic result.                      *)
C21_FlagWrittenLast ==
    [][ (Executing(8) /\ instr.x = 15 /\ instr.n \in {4, 5, 6, 7, 14}) =>
            /\ result' = "running"
            /\ cpu'.reg[15] =
                  (CASE instr.n = 4 -> IF Vx + Vy > 255 THEN 1 ELSE 0
                     [] instr.n = 5 -> IF Vx > Vy THEN 1 ELSE 0
                     [] instr.n = 6 -> Vx % 2
                     [] instr.n = 7 -> IF Vy > Vx THEN 1 ELSE 0
                     [] instr.n = 14 -> (Vx \div 128) % 2) ]_vars

\* the last address the store or load is to touch: I + 2 for Fx33, I + x
\* for Fx55 and Fx65
LastTouched == cpu.i + (IF instr.kk = 51 THEN 2 ELSE instr.x)

(* C22: Fx33, Fx55 or Fx65 with some touched address >= 0x1000 ends the    *)
(* run with a returned OutOfBounds error rather than aborting inside the   *)
(* engine, and once the run has ended (by an error from fetch or execute   *)
(* or otherwise) nothing more happens: no fetch, no execution, no tick.    *)
C22_OutOfBoundsReturned ==
    [][ /\ (Executing(15) /\ instr.kk \in {51, 85, 101} /\ LastTouched >= 4096) =>
              result' = "OutOfBounds"
        /\ result = "running" ]_vars

\* a key is pressed and its code is Vx
KeyIsVx == as_u8(flags.key) \in 0..15 /\ as_u8(flags.key) = Vx

(* C23: Ex9E skips the next instruction (PC += 2) exactly when a key is    *)
(* pressed and its code equals Vx, and ExA1 skips exactly when no key is   *)
(* pressed or the pressed key differs from Vx; so with no key pressed Ex9E *)
(* never skips and ExA1 always skips, for every Vx in 0..255, 16 included. *)
C23_KeySkips ==
    [][ /\ (Executing(14) /\ instr.kk = 158) =>
              /\ result' = "running"
              /\ cpu'.pc = (IF KeyIsVx THEN mem_addr + 4 ELSE mem_addr + 2)
        /\ (Executing(14) /\ instr.kk = 161) =>
              /\ result' = "running"
              /\ cpu'.pc = (IF KeyIsVx THEN mem_addr + 2 ELSE mem_addr + 4) ]_vars

(* C24: the draw and clear flags are single-shot: both are false at the    *)
(* start of every driver iteration and up to the execution; the execution  *)
(* raises the clear flag iff the instruction is 00E0 and the draw flag iff *)
(* it is Dxyn; the display is cleared or drawn only in such an iteration   *)
(* (clear only after 00E0, draw only after Dxyn, and then it is), and both *)
(* flags are false again before the next fetch.                            *)
C24_FlagsSingleShot ==
    [][ /\ at \in {"poll", "fetch", "decode", "execute", "tick"} =>
              ~flags.clear /\ ~flags.draw
        /\ (at = "execute" /\ result' = "running") =>
              /\ flags'.clear <=> data = H(0, 0, 14, 0)
              /\ flags'.draw <=> instr.itype = 13
        /\ at = "present" =>
              /\ ~flags'.clear /\ ~flags'.draw
              /\ display'.last = (IF instr.itype = 13 THEN "draw"
                                  ELSE IF data = H(0, 0, 14, 0) THEN "clear"
                                  ELSE display.last)
        /\ at # "present" =>
              /\ display'.canvas = display.canvas
              /\ display'.last \in {display.last, "user_event"} ]_vars

\* the run was ended by a call or a return that failed
EndedInStackError ==
    /\ at = "done"
    /\ result \notin {"Ok", "RomLoadFailure"}
    /\ instr.itype = 2 \/ (instr.itype = 0 /\ instr.kk = 238)

(* C25: the engine's stack pointer and the memory subsystem's stack        *)
(* pointer are equal and within 0..16 in every state of a run that did not *)
(* end in a stack error, and no step other than the execution of 2nnn or   *)
(* 00EE changes either of them.                                            *)
C25_StackPointersAgree ==
    /\ [](~EndedInStackError => (cpu.sp = mem.sp /\ mem.sp \in 0..StackSize))
    /\ [][ ~(Executing(2) \/ (Executing(0) /\ instr.kk = 238)) =>
              (cpu'.sp = cpu.sp /\ mem'.sp = mem.sp) ]_vars

\* sixteen calls are outstanding and one of them has just returned
C25_Witness ==
    /\ at = "present"
    /\ data = H(0, 0, 14, 14)
    /\ cpu.sp = StackSize - 1
    /\ mem.sp = StackSize - 1
    /\ mem.stack[StackSize - 1] = NestReturn(StackSize - 1)

====
